---- MODULE Spec2Model ----
(***************************************************************************)
(* Model of the Nexa full-node data retrieval scripts.                     *)
(*                                                                         *)
(*  - fetch_data_blocks_transactions.py: NexaCLI.run_command, the block    *)
(*    fetcher (get_latest_n_blocks), the transaction fetcher               *)
(*    (get_all_transactions) and the two save functions, as run by the     *)
(*    script's main block.  Specification: Spec.  SpecRerun adds a second  *)
(*    run of the script against the same node responses.                   *)
(*  - process_data.py: the Processor's main block and its hourly           *)
(*    aggregates.  Specification: SpecProc; SpecBlocks and SpecTxs run     *)
(*    its block stage and its transaction stage on every file within the   *)
(*    bounds.                                                              *)
(*                                                                         *)
(* Text is a sequence of one-character (or one-word) tokens; a Python      *)
(* value that may be None is a record with a `none` flag; a Python call    *)
(* that may raise returns a record with a `raised` flag.                   *)
(***************************************************************************)
EXTENDS Integers, Sequences, FiniteSets, TLC

\* ---------------------------------------------------------------- bounds
MaxHeight == 1          \* chain heights the node may report: 0..MaxHeight
MaxN == 3               \* requested block counts: 0..MaxN
NumProcesses == 2       \* num_processes handed to the two fetchers

\* ------------------------------------------------------- program constants
ProgressEvery == 10     \* "Print progress every 10 iterations"

\* ------------------------------------------------------------------ text
DigitChars == <<"0", "1", "2", "3", "4", "5", "6", "7", "8", "9">>

IsSpace(c) == c \in {" ", "\n"}

IsDigitChar(c) == \E d \in 1..10 : DigitChars[d] = c

DigitValue(c) == (CHOOSE d \in 1..10 : DigitChars[d] = c) - 1

RECURSIVE LStrip(_)
LStrip(s) == IF s # <<>> /\ IsSpace(Head(s)) THEN LStrip(Tail(s)) ELSE s

RECURSIVE RStrip(_)
RStrip(s) ==
    IF s # <<>> /\ IsSpace(s[Len(s)]) THEN RStrip(SubSeq(s, 1, Len(s) - 1)) ELSE s

\* str.strip()
Strip(s) == RStrip(LStrip(s))

\* str.isdigit(): non-empty and every character a digit
IsDigit(s) == s # <<>> /\ \A k \in 1..Len(s) : IsDigitChar(s[k])

\* int(s) of a string of digits
RECURSIVE ToInt(_)
ToInt(s) ==
    IF s = <<>> THEN 0
    ELSE 10 * ToInt(SubSeq(s, 1, Len(s) - 1)) + DigitValue(s[Len(s)])

\* `needle in s`, for a one-token needle
Contains(s, needle) == \E k \in 1..Len(s) : s[k] = needle

ErrorCodeM5 == "error code: -5"

\* json.loads on the texts of this model: a document is "{" ... "}", the
\* empty object is "{" "}"; anything else is a JSONDecodeError.
JsonLoads(s) ==
    IF Len(s) >= 2 /\ s[1] = "{" /\ s[Len(s)] = "}"
          /\ \A k \in 2..(Len(s) - 1) : s[k] \notin {"{", "}"}
    THEN [ok |-> TRUE, empty |-> Len(s) = 2]
    ELSE [ok |-> FALSE, empty |-> FALSE]

\* --------------------------------------------------- the external process
\* What subprocess.run did: raised (exc), or finished with these streams.
Proc(out, err, exc) == [stdout |-> out, stderr |-> err, exc |-> exc, ran |-> TRUE]

NotRun == [stdout |-> <<>>, stderr |-> <<>>, exc |-> FALSE, ran |-> FALSE]

Silent == Proc(<<>>, <<>>, FALSE)            \* nothing on either stream
StderrOnly == Proc(<<>>, <<"e">>, FALSE)     \* error text on stderr only
FailsToStart == Proc(<<>>, <<>>, TRUE)       \* subprocess.run raised

\* getblockcount
CountOuts ==
    { Proc(<<DigitChars[h + 1], "\n">>, <<>>, FALSE) : h \in 0..MaxHeight }
    \cup { Proc(<<"0", "1", "\n">>, <<>>, FALSE),     \* zero-padded
           Proc(<<" ", "1", "\n">>, <<>>, FALSE),     \* space-padded
           Proc(<<"-", "1", "\n">>, <<>>, FALSE),     \* negative
           Proc(<<"e", "r", "r", "\n">>, <<>>, FALSE),
           StderrOnly, Silent, FailsToStart }

\* getblockhash <height>
HashOuts == { Proc(<<"h", "\n">>, <<>>, FALSE), StderrOnly, Silent }

\* getblock <hash> 1
BlockOuts ==
    { Proc(<<"{", "b", "}", "\n">>, <<>>, FALSE),     \* the block's JSON
      Proc(<<"{", "b", "\n">>, <<>>, FALSE),          \* truncated JSON
      Silent }

\* getrawtransaction <txid> 1
TxOuts ==
    { Proc(<<"{", "t", "}", "\n">>, <<>>, FALSE),     \* the transaction's JSON
      Proc(<<"e", ErrorCodeM5, "\n">>, <<>>, FALSE),  \* soft miss
      Proc(<<"{", "t", "\n">>, <<>>, FALSE),          \* truncated JSON
      Proc(<<"{", "}", "\n">>, <<>>, FALSE),          \* an empty JSON object
      StderrOnly, Silent }

\* The node's chain: block h lists (h % 2) + 1 transaction ids and declares
\* that many.
NodeTxids(h) == [j \in 1..((h % 2) + 1) |-> 10 * h + j]

NodeBlock(h) == [height |-> h, txid |-> NodeTxids(h), txcount |-> Len(NodeTxids(h))]

NodeTx(id) == [txid |-> id]

\* ------------------------------------------------------------ Python values
None == [none |-> TRUE, str |-> <<>>]
Str(s) == [none |-> FALSE, str |-> s]

NoException == "none"

\* ------------------------------------------------------- NexaCLI.run_command
run_command(p) ==
    IF p.exc THEN Str(<<>>)
    ELSE IF p.stdout # <<>> THEN Str(Strip(p.stdout))
    ELSE IF p.stderr # <<>> THEN Str(<<>>)
    ELSE None                          \* falls off the end of the try block

\* get_latest_block_height: [raised, exc, none, val]
get_latest_block_height(p) ==
    LET output == run_command(p) IN
    IF output.none
    THEN [raised |-> TRUE, exc |-> "AttributeError", none |-> FALSE, val |-> 0]
    ELSE IF IsDigit(output.str)
    THEN [raised |-> FALSE, exc |-> NoException, none |-> FALSE,
          val |-> ToInt(Strip(output.str))]
    ELSE [raised |-> FALSE, exc |-> NoException, none |-> TRUE, val |-> 0]

\* A dict is a sequence of [k, v] entries in insertion order.
EmptyDict == <<>>

Keys(d) == { d[k].k : k \in 1..Len(d) }

DictGet(d, key) == (CHOOSE k \in 1..Len(d) : d[k].k = key)

\* dict.update(e): an existing key keeps its place, a new one is appended
RECURSIVE DictUpdate(_, _)
DictUpdate(d, e) ==
    IF e = <<>> THEN d
    ELSE LET x == Head(e)
             d1 == IF x.k \in Keys(d)
                   THEN [d EXCEPT ![DictGet(d, x.k)] = x]
                   ELSE Append(d, x)
         IN DictUpdate(d1, Tail(e))

\* get_block_data: [raised, exc, dict]
get_block_data(block_height, hp, bp) ==
    LET out1 == run_command(hp) IN
    IF out1.none
    THEN [raised |-> TRUE, exc |-> "AttributeError", dict |-> EmptyDict]
    ELSE IF Strip(out1.str) = <<>>
    THEN [raised |-> FALSE, exc |-> NoException, dict |-> EmptyDict]
    ELSE LET out2 == run_command(bp) IN
         IF out2.none
         THEN [raised |-> TRUE, exc |-> "TypeError", dict |-> EmptyDict]
         ELSE IF ~JsonLoads(out2.str).ok
         THEN [raised |-> FALSE, exc |-> NoException, dict |-> EmptyDict]
         ELSE [raised |-> FALSE, exc |-> NoException,
               dict |-> <<[k |-> block_height, v |-> NodeBlock(block_height)]>>]

\* Whether get_block_data reaches its second command
NeedsBlockCall(hp) ==
    LET out1 == run_command(hp) IN ~out1.none /\ Strip(out1.str) # <<>>

\* get_transaction_data: [raised, exc, none, empty, doc]
get_transaction_data(txid, p) ==
    LET output == run_command(p)
        miss == [raised |-> FALSE, exc |-> NoException, none |-> TRUE,
                 empty |-> FALSE, doc |-> NodeTx(txid)]
    IN
    IF output.none
    THEN [miss EXCEPT !.raised = TRUE, !.exc = "TypeError", !.none = FALSE]
    ELSE IF Contains(output.str, ErrorCodeM5) THEN miss
    ELSE IF output.str = <<>> THEN miss
    ELSE IF ~JsonLoads(output.str).ok THEN miss
    ELSE [miss EXCEPT !.none = FALSE, !.empty = JsonLoads(output.str).empty]

\* ------------------------------------------------------------------ state
VARIABLES
    pc,                 \* where the fetch script's main block is
    n,                  \* n_blocks, the requested count
    count_proc,         \* what the node's getblockcount process does
    warned,             \* the "Requested n blocks, but only ..." warning
    block_heights,      \* get_latest_n_blocks: the heights submitted
    block_futures,      \* get_latest_n_blocks: one future per height
    tx_futures,         \* get_all_transactions: one future per txid
    i,                  \* results taken from as_completed so far
    exc,                \* the exception in flight, NoException when none
    blocks_dict,        \* get_latest_n_blocks: the mapping being built
    transactions_data,  \* get_all_transactions: the list being built
    blocks_file,        \* nexa_last_blocks.json
    tx_file,            \* nexa_transactions.json
    first_run           \* SpecRerun: what the first run of the script returned

fetch_vars == <<pc, n, count_proc, warned, block_heights, block_futures,
                tx_futures, i, exc, blocks_dict, transactions_data,
                blocks_file, tx_file, first_run>>

\* The Processor (process_data.py)
VARIABLES
    ppc,                            \* where the Processor's main block is
    block_file_in,                  \* nexa_last_blocks.json as the Processor finds it
    tx_file_in,                     \* nexa_transactions.json as the Processor finds it
    block_data,                     \* read_json_file(block_data_file_path)
    transaction_data,               \* read_json_file(transaction_data_file_path)
    df_filtered_blocks,
    df_hourly_closing_difficulty,
    df_filtered_transactions,
    df_hourly_aggregation,
    df_transactions_per_hour,
    proc_exc                        \* the uncaught exception, NoException when none

proc_vars == <<ppc, block_file_in, tx_file_in, block_data, transaction_data,
               df_filtered_blocks, df_hourly_closing_difficulty,
               df_filtered_transactions, df_hourly_aggregation,
               df_transactions_per_hour, proc_exc>>

\* A file left by an earlier run
StaleFile == [written |-> FALSE, data |-> <<[height |-> 99]>>]

NoFirstRun == [set |-> FALSE, blocks_raised |-> FALSE, blocks |-> {}, txs_raised |-> FALSE,
               txs |-> [x \in {} |-> 0]]

NewBlockFuture(h) == [key |-> h, st |-> "queued", hp |-> NotRun, bp |-> NotRun, uses |-> 0]

NewTxFuture(id) == [key |-> id, st |-> "queued", p |-> NotRun, uses |-> 0]

\* The future submitted for `key`: the node answers a second run of the script
\* as it answered the first, so the answers an earlier future got are kept.
Submit(old, key, fresh) ==
    IF \E j \in 1..Len(old) : old[j].key = key
    THEN [old[CHOOSE j \in 1..Len(old) : old[j].key = key]
             EXCEPT !.st = "queued", !.uses = 0]
    ELSE fresh

\* lines 82-84: n is clamped to latest_block_height + 1
ClampOffByOne(requested, latest) == IF requested > latest THEN latest ELSE requested

ClampN(requested, latest) == IF requested > latest + 1 THEN latest + 1 ELSE requested

\* line 86: [latest_block_height - i for i in range(n)]
BlockHeights(latest, count) == [k \in 1..count |-> latest - (k - 1)]

\* line 98: the progress line is printed on this (1-based) iteration
ProgressLine(iter, total) == (iter % ProgressEvery = 0) \/ iter = total

\* dict.values(), in insertion order
Values(d) == [k \in 1..Len(d) |-> d[k].v]

\* line 107: the txids of every block, flattened
RECURSIVE FlattenTxidsTwice(_)
FlattenTxidsTwice(blocks) ==
    IF blocks = <<>> THEN <<>>
    ELSE Head(blocks).txid \o Head(blocks).txid \o FlattenTxidsTwice(Tail(blocks))

RECURSIVE FlattenTxids(_)
FlattenTxids(blocks) ==
    IF blocks = <<>> THEN <<>>
    ELSE Head(blocks).txid \o FlattenTxids(Tail(blocks))

Running(fs) == { k \in 1..Len(fs) : fs[k].st = "running" }
Queued(fs) == { k \in 1..Len(fs) : fs[k].st = "queued" }
AllDone(fs) == \A k \in 1..Len(fs) : fs[k].st = "done"
AllConsumed(fs) == \A k \in 1..Len(fs) : fs[k].uses >= 1

\* The result a finished block future holds / a finished transaction future holds
BlockResult(f) == get_block_data(f.key, f.hp, f.bp)
TxResult(f) == get_transaction_data(f.key, f.p)

FetchInit ==
    /\ pc = "start"
    /\ n \in 0..MaxN
    /\ count_proc \in CountOuts
    /\ warned = FALSE
    /\ block_heights = <<>>
    /\ block_futures = <<>>
    /\ tx_futures = <<>>
    /\ i = 0
    /\ exc = NoException
    /\ blocks_dict = EmptyDict
    /\ transactions_data = <<>>
    /\ blocks_file = StaleFile
    /\ tx_file = StaleFile
    /\ first_run = NoFirstRun

\* get_latest_n_blocks up to the submission of the futures (lines 78-92)
GetLatestNBlocks ==
    /\ pc = "start"
    /\ LET r == get_latest_block_height(count_proc) IN
       IF r.raised
       THEN /\ pc' = "blocks_raised"
            /\ exc' = r.exc
            /\ UNCHANGED <<warned, block_heights, block_futures, blocks_dict>>
       ELSE IF r.none
       THEN /\ pc' = "save_blocks"
            /\ blocks_dict' = EmptyDict
            /\ UNCHANGED <<exc, warned, block_heights, block_futures>>
       ELSE LET m == ClampN(n, r.val) IN
            /\ warned' = (n > r.val + 1)
            /\ block_heights' = BlockHeights(r.val, m)
            /\ block_futures' =
                   [k \in 1..m |-> Submit(block_futures, BlockHeights(r.val, m)[k],
                                          NewBlockFuture(BlockHeights(r.val, m)[k]))]
            /\ blocks_dict' = EmptyDict
            /\ pc' = "fetch_blocks"
            /\ UNCHANGED exc
    /\ i' = 0
    /\ UNCHANGED <<n, count_proc, tx_futures, transactions_data, blocks_file,
                   tx_file, first_run>>
    /\ UNCHANGED proc_vars

\* A free worker process takes the next queued call (the call queue is FIFO)
BlockWorkerStart ==
    /\ pc = "fetch_blocks"
    /\ Queued(block_futures) # {}
    /\ Cardinality(Running(block_futures)) < NumProcesses
    /\ LET k == CHOOSE q \in Queued(block_futures) :
                    \A q2 \in Queued(block_futures) : q <= q2
       IN block_futures' = [block_futures EXCEPT ![k].st = "running"]
    /\ UNCHANGED <<pc, n, count_proc, warned, block_heights, tx_futures, i, exc,
                   blocks_dict, transactions_data, blocks_file, tx_file, first_run>>
    /\ UNCHANGED proc_vars

\* A worker finishes get_block_data (lines 36-54): the node answers getblockhash
\* and, when a hash came back, getblock.  A second run gets the same answers.
BlockWorkerDone ==
    /\ pc = "fetch_blocks"
    /\ \E k \in Running(block_futures) :
         \E hp \in (IF block_futures[k].hp.ran THEN {block_futures[k].hp} ELSE HashOuts) :
           \E bp \in (IF ~NeedsBlockCall(hp) THEN {NotRun}
                      ELSE IF block_futures[k].bp.ran THEN {block_futures[k].bp}
                      ELSE BlockOuts) :
             block_futures' = [block_futures EXCEPT ![k].st = "done",
                                                    ![k].hp = hp, ![k].bp = bp]
    /\ UNCHANGED <<pc, n, count_proc, warned, block_heights, tx_futures, i, exc,
                   blocks_dict, transactions_data, blocks_file, tx_file, first_run>>
    /\ UNCHANGED proc_vars

\* One iteration of `for i, future in enumerate(as_completed(futures))`
\* (lines 93-100)
ConsumeBlock ==
    /\ pc = "fetch_blocks"
    /\ exc = NoException
    /\ \E k \in 1..Len(block_futures) :
         /\ block_futures[k].st = "done"
         /\ block_futures[k].uses = 0
         /\ block_futures' = [block_futures EXCEPT ![k].uses = @ + 1]
         /\ LET r == BlockResult(block_futures[k]) IN
            IF r.raised
            THEN /\ exc' = r.exc                    \* future.result() re-raises
                 /\ UNCHANGED blocks_dict
            ELSE /\ blocks_dict' = DictUpdate(blocks_dict, r.dict)
                 /\ exc' = IF ProgressLine(i + 1, Len(block_heights))
                              /\ r.dict = EmptyDict
                           THEN "IndexError"        \* list(block_data.keys())[0]
                           ELSE NoException
    /\ i' = i + 1
    /\ UNCHANGED <<pc, n, count_proc, warned, block_heights, tx_futures,
                   transactions_data, blocks_file, tx_file, first_run>>
    /\ UNCHANGED proc_vars

\* The `with` block is left (its exit waits for every submitted call) and
\* get_latest_n_blocks returns or the exception goes on (lines 91, 102)
BlocksExit ==
    /\ pc = "fetch_blocks"
    /\ exc # NoException \/ AllConsumed(block_futures)
    /\ AllDone(block_futures)
    /\ pc' = IF exc = NoException THEN "save_blocks" ELSE "blocks_raised"
    /\ UNCHANGED <<n, count_proc, warned, block_heights, block_futures, tx_futures,
                   i, exc, blocks_dict, transactions_data, blocks_file, tx_file,
                   first_run>>
    /\ UNCHANGED proc_vars

\* DataFrame.from_dict(orient='index') and save_block_data (lines 148-152)
SaveBlockData ==
    /\ pc = "save_blocks"
    /\ blocks_file' = [written |-> TRUE, data |-> Values(blocks_dict)]
    /\ pc' = "get_txs"
    /\ UNCHANGED <<n, count_proc, warned, block_heights, block_futures, tx_futures,
                   i, exc, blocks_dict, transactions_data, tx_file, first_run>>
    /\ UNCHANGED proc_vars

\* get_all_transactions up to the submission of the futures (lines 107-113)
GetAllTransactions ==
    /\ pc = "get_txs"
    /\ LET txids == FlattenTxids(Values(blocks_dict)) IN
       tx_futures' = [k \in 1..Len(txids) |->
                         Submit(tx_futures, txids[k], NewTxFuture(txids[k]))]
    /\ transactions_data' = <<>>
    /\ i' = 0
    /\ pc' = "fetch_txs"
    /\ UNCHANGED <<n, count_proc, warned, block_heights, block_futures, exc,
                   blocks_dict, blocks_file, tx_file, first_run>>
    /\ UNCHANGED proc_vars

TxWorkerStart ==
    /\ pc = "fetch_txs"
    /\ Queued(tx_futures) # {}
    /\ Cardinality(Running(tx_futures)) < NumProcesses
    /\ LET k == CHOOSE q \in Queued(tx_futures) :
                    \A q2 \in Queued(tx_futures) : q <= q2
       IN tx_futures' = [tx_futures EXCEPT ![k].st = "running"]
    /\ UNCHANGED <<pc, n, count_proc, warned, block_heights, block_futures, i, exc,
                   blocks_dict, transactions_data, blocks_file, tx_file, first_run>>
    /\ UNCHANGED proc_vars

\* A worker finishes get_transaction_data (lines 56-75)
TxWorkerDone ==
    /\ pc = "fetch_txs"
    /\ \E k \in Running(tx_futures) :
         \E p \in (IF tx_futures[k].p.ran THEN {tx_futures[k].p} ELSE TxOuts) :
           tx_futures' = [tx_futures EXCEPT ![k].st = "done", ![k].p = p]
    /\ UNCHANGED <<pc, n, count_proc, warned, block_heights, block_futures, i, exc,
                   blocks_dict, transactions_data, blocks_file, tx_file, first_run>>
    /\ UNCHANGED proc_vars

\* One iteration of the loop of get_all_transactions (lines 114-121)
ConsumeTx ==
    /\ pc = "fetch_txs"
    /\ exc = NoException
    /\ \E k \in 1..Len(tx_futures) :
         /\ tx_futures[k].st = "done"
         /\ tx_futures[k].uses = 0
         /\ tx_futures' = [tx_futures EXCEPT ![k].uses = @ + 1]
         /\ LET r == TxResult(tx_futures[k]) IN
            IF r.raised
            THEN /\ exc' = r.exc
                 /\ UNCHANGED transactions_data
            ELSE /\ exc' = NoException
                 /\ transactions_data' =
                        IF ~r.none /\ ~r.empty             \* if tx_data:
                        THEN Append(transactions_data, r.doc)
                        ELSE transactions_data
    /\ i' = i + 1
    /\ UNCHANGED <<pc, n, count_proc, warned, block_heights, block_futures,
                   blocks_dict, blocks_file, tx_file, first_run>>
    /\ UNCHANGED proc_vars

\* The `with` block of get_all_transactions is left (lines 112, 123)
TxsExit ==
    /\ pc = "fetch_txs"
    /\ exc # NoException \/ AllConsumed(tx_futures)
    /\ AllDone(tx_futures)
    /\ pc' = IF exc = NoException THEN "save_txs" ELSE "txs_raised"
    /\ UNCHANGED <<n, count_proc, warned, block_heights, block_futures, tx_futures,
                   i, exc, blocks_dict, transactions_data, blocks_file, tx_file,
                   first_run>>
    /\ UNCHANGED proc_vars

\* save_transaction_data (lines 131-136, 156)
SaveTransactionData ==
    /\ pc = "save_txs"
    /\ tx_file' = [written |-> TRUE, data |-> transactions_data]
    /\ pc' = "done"
    /\ UNCHANGED <<n, count_proc, warned, block_heights, block_futures, tx_futures,
                   i, exc, blocks_dict, transactions_data, blocks_file, first_run>>
    /\ UNCHANGED proc_vars

\* The script is run again (each run re-fetches and overwrites); what the
\* first run returned is kept for comparison.
ToBag(seq) ==
    [x \in { seq[k] : k \in 1..Len(seq) } |->
        Cardinality({ k \in 1..Len(seq) : seq[k] = x })]

Entries(d) == { d[k] : k \in 1..Len(d) }

Finished == pc \in {"done", "blocks_raised", "txs_raised"}

\* What the two fetchers returned: a fetcher that raised returned nothing
Outcome ==
    [set |-> TRUE,
     blocks_raised |-> (pc = "blocks_raised"),
     blocks |-> IF pc = "blocks_raised" THEN {} ELSE Entries(blocks_dict),
     txs_raised |-> (pc = "txs_raised"),
     txs |-> IF pc = "done" THEN ToBag(transactions_data) ELSE ToBag(<<>>)]

Rerun ==
    /\ Finished
    /\ ~first_run.set
    /\ first_run' = Outcome
    /\ pc' = "start"
    /\ warned' = FALSE
    /\ block_heights' = <<>>
    /\ i' = 0
    /\ exc' = NoException
    /\ blocks_dict' = EmptyDict
    /\ transactions_data' = <<>>
    /\ UNCHANGED <<n, count_proc, block_futures, tx_futures, blocks_file, tx_file>>
    /\ UNCHANGED proc_vars

FetchNext ==
    \/ GetLatestNBlocks
    \/ BlockWorkerStart
    \/ BlockWorkerDone
    \/ ConsumeBlock
    \/ BlocksExit
    \/ SaveBlockData
    \/ GetAllTransactions
    \/ TxWorkerStart
    \/ TxWorkerDone
    \/ ConsumeTx
    \/ TxsExit
    \/ SaveTransactionData

\* ------------------------------------------------------------ Processor
MaxRecords == 2         \* records in a persisted file: 0..MaxRecords
MaxHour == 1            \* timestamps fall in the hours 0..MaxHour

SecondsPerHour == 3600  \* resample('H')

\* A JSON value of a record: a number, a string, or null / absent
Num(x) == [kind |-> "num", n |-> x, s |-> <<>>]
StrV(t) == [kind |-> "str", n |-> 0, s |-> t]
Null == [kind |-> "null", n |-> 0, s |-> <<>>]

\* A cell of a numeric column
NaN == [nan |-> TRUE, n |-> 0]
Val(x) == [nan |-> FALSE, n |-> x]

\* A Python name not bound yet
Unbound == [bound |-> FALSE, rows |-> <<>>]
Bound(r) == [bound |-> TRUE, rows |-> r]

BlockTimes == { SecondsPerHour * h + o : h \in 0..MaxHour, o \in {0, SecondsPerHour - 1} }
TxTimes == { SecondsPerHour * h + 59 : h \in 0..MaxHour }

BlockRecords == [time : BlockTimes, difficulty : {Null, Num(1), Num(2)}]

TxRecords == [time : TxTimes,
              sends : {Num(1), Num(2), StrV(<<"3">>), StrV(<<"x">>)},
              fee : {Num(1), StrV(<<"x">>), Null}]

SeqsUpTo(S, len) == UNION { [1..l -> S] : l \in 0..len }

\* What a file on disk is: unreadable, or a JSON array of records
Unreadable == [readable |-> FALSE, data |-> <<>>]
FileOf(records) == [readable |-> TRUE, data |-> records]

\* read_json_file (lines 5-19): the data, or None after any exception
read_json_file(file) == [none |-> ~file.readable, data |-> file.data]

\* `if block_data:` - neither None nor an empty list
Truthy(d) == ~d.none /\ d.data # <<>>

\* pd.to_datetime(unit='s') followed by the hourly bucket of resample('H')
HourOf(t) == t \div SecondsPerHour

\* pd.to_numeric(errors='coerce')
to_numeric(v) ==
    IF v.kind = "num" THEN Val(v.n)
    ELSE IF v.kind = "str" /\ IsDigit(v.s) THEN Val(ToInt(v.s))
    ELSE NaN

Injective(f) == \A a, b \in DOMAIN f : f[a] = f[b] => a = b

\* sort_index(ascending=True): the rows in ascending time order; the default
\* sort is not stable, so rows of equal time come in any order.
UnsortedFrames(rows) == { rows }

SortedFrames(rows) ==
    { [k \in 1..Len(rows) |-> rows[perm[k]]] :
        perm \in { q \in [1..Len(rows) -> 1..Len(rows)] :
                     /\ Injective(q)
                     /\ \A a, b \in 1..Len(rows) :
                          a < b => rows[q[a]].time <= rows[q[b]].time } }

\* process_block_data (lines 21-42): the possible frames
process_block_data(data) == SortedFrames(data)

\* process_transaction_data (lines 44-65): the possible frames
process_transaction_data(data) == SortedFrames(data)

\* The hour buckets of resample('H') over a sorted frame: every hour from the
\* first row's to the last row's
Buckets(df) == HourOf(df[1].time)..HourOf(df[Len(df)].time)

\* The rows of a frame that fall in hour h, in frame order
RECURSIVE RowsIn(_, _)
RowsIn(df, h) ==
    IF df = <<>> THEN <<>>
    ELSE IF HourOf(Head(df).time) = h THEN <<Head(df)>> \o RowsIn(Tail(df), h)
    ELSE RowsIn(Tail(df), h)

\* Series.sum(): NaN cells are skipped, an empty bucket sums to 0
RECURSIVE SumCells(_)
SumCells(cells) ==
    IF cells = <<>> THEN 0
    ELSE (IF Head(cells).nan THEN 0 ELSE Head(cells).n) + SumCells(Tail(cells))

\* GroupBy.last(): the last cell that is not NaN, NaN when there is none
RECURSIVE LastCell(_)
LastCell(cells) ==
    IF cells = <<>> THEN NaN
    ELSE IF cells[Len(cells)].nan THEN LastCell(SubSeq(cells, 1, Len(cells) - 1))
    ELSE cells[Len(cells)]

Column(rows, Cell(_)) == [k \in 1..Len(rows) |-> Cell(rows[k])]

SendsCell(row) == to_numeric(row.sends)
FeeCell(row) == to_numeric(row.fee)
\* a JSON null (or an absent key) is NaN in the frame
DifficultyCell(row) == IF row.difficulty.kind = "null" THEN NaN ELSE Val(row.difficulty.n)

\* A frame with every row holding a NaN dropped
RECURSIVE DropNaRows(_)
DropNaRows(rows) ==
    IF rows = <<>> THEN <<>>
    ELSE IF SendsCell(Head(rows)).nan \/ FeeCell(Head(rows)).nan
    THEN DropNaRows(Tail(rows))
    ELSE <<Head(rows)>> \o DropNaRows(Tail(rows))

HourlySumsDropNa(df) ==
    [h \in Buckets(df) |->
        [hourly_volume |-> SumCells(Column(DropNaRows(RowsIn(df, h)), SendsCell)),
         hourly_fees |-> SumCells(Column(DropNaRows(RowsIn(df, h)), FeeCell))]]

\* calculate_hourly_volume_and_fees (lines 67-84)
calculate_hourly_volume_and_fees(df) ==
    [h \in Buckets(df) |->
        [hourly_volume |-> SumCells(Column(RowsIn(df, h), SendsCell)),
         hourly_fees |-> SumCells(Column(RowsIn(df, h), FeeCell))]]

\* calculate_transactions_per_hour (lines 86-99)
calculate_transactions_per_hour(df) ==
    [h \in Buckets(df) |-> [transactions_per_hour |-> Len(RowsIn(df, h))]]

\* calculate_hourly_closing_difficulty (lines 101-114)
calculate_hourly_closing_difficulty(df) ==
    [h \in Buckets(df) |->
        [closing_difficulty |-> LastCell(Column(RowsIn(df, h), DifficultyCell))]]

ProcIdle ==
    /\ ppc = "idle"
    /\ block_file_in = Unreadable
    /\ tx_file_in = Unreadable
    /\ block_data = read_json_file(Unreadable)
    /\ transaction_data = read_json_file(Unreadable)
    /\ df_filtered_blocks = Unbound
    /\ df_hourly_closing_difficulty = Unbound
    /\ df_filtered_transactions = Unbound
    /\ df_hourly_aggregation = Unbound
    /\ df_transactions_per_hour = Unbound
    /\ proc_exc = NoException

FetchIdle ==
    /\ pc = "idle"
    /\ n = 0
    /\ count_proc = NotRun
    /\ warned = FALSE
    /\ block_heights = <<>>
    /\ block_futures = <<>>
    /\ tx_futures = <<>>
    /\ i = 0
    /\ exc = NoException
    /\ blocks_dict = EmptyDict
    /\ transactions_data = <<>>
    /\ blocks_file = StaleFile
    /\ tx_file = StaleFile
    /\ first_run = NoFirstRun

\* The Processor's main block starts, with these possible files
ProcStart(block_files, tx_files) ==
    /\ ppc = "read_blocks"
    /\ block_file_in \in block_files
    /\ tx_file_in \in tx_files
    /\ block_data = read_json_file(Unreadable)
    /\ transaction_data = read_json_file(Unreadable)
    /\ df_filtered_blocks = Unbound
    /\ df_hourly_closing_difficulty = Unbound
    /\ df_filtered_transactions = Unbound
    /\ df_hourly_aggregation = Unbound
    /\ df_transactions_per_hour = Unbound
    /\ proc_exc = NoException

\* line 164-165
ReadBlockFile ==
    /\ ppc = "read_blocks"
    /\ block_data' = read_json_file(block_file_in)
    /\ ppc' = IF Truthy(read_json_file(block_file_in)) THEN "process_blocks" ELSE "read_txs"
    /\ UNCHANGED <<block_file_in, tx_file_in, transaction_data, df_filtered_blocks,
                   df_hourly_closing_difficulty, df_filtered_transactions,
                   df_hourly_aggregation, df_transactions_per_hour, proc_exc>>
    /\ UNCHANGED fetch_vars

\* line 166
ProcessBlockData ==
    /\ ppc = "process_blocks"
    /\ \E df \in process_block_data(block_data.data) : df_filtered_blocks' = Bound(df)
    /\ ppc' = "closing_difficulty"
    /\ UNCHANGED <<block_file_in, tx_file_in, block_data, transaction_data,
                   df_hourly_closing_difficulty, df_filtered_transactions,
                   df_hourly_aggregation, df_transactions_per_hour, proc_exc>>
    /\ UNCHANGED fetch_vars

\* line 171
CalculateHourlyClosingDifficulty ==
    /\ ppc = "closing_difficulty"
    /\ df_hourly_closing_difficulty' =
           Bound(calculate_hourly_closing_difficulty(df_filtered_blocks.rows))
    /\ ppc' = "read_txs"
    /\ UNCHANGED <<block_file_in, tx_file_in, block_data, transaction_data,
                   df_filtered_blocks, df_filtered_transactions,
                   df_hourly_aggregation, df_transactions_per_hour, proc_exc>>
    /\ UNCHANGED fetch_vars

\* lines 176-177
ReadTransactionFile ==
    /\ ppc = "read_txs"
    /\ transaction_data' = read_json_file(tx_file_in)
    /\ ppc' = IF Truthy(read_json_file(tx_file_in)) THEN "process_txs" ELSE "done"
    /\ UNCHANGED <<block_file_in, tx_file_in, block_data, df_filtered_blocks,
                   df_hourly_closing_difficulty, df_filtered_transactions,
                   df_hourly_aggregation, df_transactions_per_hour, proc_exc>>
    /\ UNCHANGED fetch_vars

\* line 178
ProcessTransactionData ==
    /\ ppc = "process_txs"
    /\ \E df \in process_transaction_data(transaction_data.data) :
         df_filtered_transactions' = Bound(df)
    /\ ppc' = "volume_and_fees"
    /\ UNCHANGED <<block_file_in, tx_file_in, block_data, transaction_data,
                   df_filtered_blocks, df_hourly_closing_difficulty,
                   df_hourly_aggregation, df_transactions_per_hour, proc_exc>>
    /\ UNCHANGED fetch_vars

\* line 183
CalculateHourlyVolumeAndFees ==
    /\ ppc = "volume_and_fees"
    /\ df_hourly_aggregation' =
           Bound(calculate_hourly_volume_and_fees(df_filtered_transactions.rows))
    /\ ppc' = "transactions_per_hour"
    /\ UNCHANGED <<block_file_in, tx_file_in, block_data, transaction_data,
                   df_filtered_blocks, df_hourly_closing_difficulty,
                   df_filtered_transactions, df_transactions_per_hour, proc_exc>>
    /\ UNCHANGED fetch_vars

\* line 188
CalculateTransactionsPerHour ==
    /\ ppc = "transactions_per_hour"
    /\ df_transactions_per_hour' =
           Bound(calculate_transactions_per_hour(df_filtered_transactions.rows))
    /\ ppc' = "plot"
    /\ UNCHANGED <<block_file_in, tx_file_in, block_data, transaction_data,
                   df_filtered_blocks, df_hourly_closing_difficulty,
                   df_filtered_transactions, df_hourly_aggregation, proc_exc>>
    /\ UNCHANGED fetch_vars

\* line 193: the call's arguments are evaluated; a name never bound is a
\* NameError, which nothing catches
PlotTimeSeries ==
    /\ ppc = "plot"
    /\ IF df_hourly_aggregation.bound /\ df_transactions_per_hour.bound
          /\ df_hourly_closing_difficulty.bound
       THEN ppc' = "done" /\ UNCHANGED proc_exc
       ELSE ppc' = "raised" /\ proc_exc' = "NameError"
    /\ UNCHANGED <<block_file_in, tx_file_in, block_data, transaction_data,
                   df_filtered_blocks, df_hourly_closing_difficulty,
                   df_filtered_transactions, df_hourly_aggregation,
                   df_transactions_per_hour>>
    /\ UNCHANGED fetch_vars


vars == <<fetch_vars, proc_vars>>

\* ---------------------------------------------------------- specifications
\* One run of the fetch script
Init == FetchInit /\ ProcIdle

Next == FetchNext

Spec == Init /\ [][Next]_vars

\* Two runs of the fetch script against the same node
NextRerun ==
    \/ FetchNext
    \/ Rerun

SpecRerun == Init /\ [][NextRerun]_vars

\* One run of the Processor
InitProc ==
    /\ ProcStart({Unreadable} \cup { FileOf(r) : r \in SeqsUpTo(BlockRecords, 1) },
                 {Unreadable} \cup { FileOf(r) : r \in SeqsUpTo(TxRecords, 1) })
    /\ FetchIdle

NextProc ==
    \/ ReadBlockFile
    \/ ProcessBlockData
    \/ CalculateHourlyClosingDifficulty
    \/ ReadTransactionFile
    \/ ProcessTransactionData
    \/ CalculateHourlyVolumeAndFees
    \/ CalculateTransactionsPerHour
    \/ PlotTimeSeries

SpecProc == InitProc /\ [][NextProc]_vars

\* The block stage of the Processor on every block file within the bounds
InitBlocks ==
    /\ ProcStart({ FileOf(r) : r \in SeqsUpTo(BlockRecords, MaxRecords) }, {Unreadable})
    /\ FetchIdle

NextBlocks ==
    \/ ReadBlockFile
    \/ ProcessBlockData
    \/ CalculateHourlyClosingDifficulty

SpecBlocks == InitBlocks /\ [][NextBlocks]_vars

\* The transaction stage of the Processor on every transaction file within
\* the bounds, after a block stage that found one block
InitTxs ==
    /\ FetchIdle
    /\ ppc = "read_txs"
    /\ block_file_in = FileOf(<<[time |-> 0, difficulty |-> Num(1)]>>)
    /\ tx_file_in \in { FileOf(r) : r \in SeqsUpTo(TxRecords, MaxRecords) }
    /\ block_data = read_json_file(block_file_in)
    /\ transaction_data = read_json_file(Unreadable)
    /\ df_filtered_blocks \in { Bound(df) : df \in process_block_data(block_data.data) }
    /\ df_hourly_closing_difficulty =
           Bound(calculate_hourly_closing_difficulty(df_filtered_blocks.rows))
    /\ df_filtered_transactions = Unbound
    /\ df_hourly_aggregation = Unbound
    /\ df_transactions_per_hour = Unbound
    /\ proc_exc = NoException

NextTxs ==
    \/ ReadTransactionFile
    \/ ProcessTransactionData
    \/ CalculateHourlyVolumeAndFees
    \/ CalculateTransactionsPerHour
    \/ PlotTimeSeries

SpecTxs == InitTxs /\ [][NextTxs]_vars

\* ------------------------------------------------------------------ claims
BlocksReturned == pc \in {"save_blocks", "get_txs", "fetch_txs", "save_txs", "done", "txs_raised"}

SucceededHeights ==
    { block_futures[k].key : k \in { j \in 1..Len(block_futures) :
          /\ block_futures[j].st = "done"
          /\ ~BlockResult(block_futures[j]).raised
          /\ BlockResult(block_futures[j]).dict # EmptyDict } }

NoWorkerRaised ==
    \A k \in 1..Len(block_futures) :
        block_futures[k].st = "done" => ~BlockResult(block_futures[k]).raised

\* C1: whichever heights fail with an empty hash or with block detail that is
\* not JSON, and in whatever order the workers complete, get_latest_n_blocks
\* returns without raising, and the mapping it returns holds exactly the
\* heights whose fetch succeeded; no height is submitted twice.
C1_PartialFailuresOnlyShrinkTheMapping ==
    (/\ pc # "start"
     /\ ~get_latest_block_height(count_proc).raised
     /\ NoWorkerRaised)
    => /\ pc # "blocks_raised"
       /\ exc # "IndexError"
       /\ Injective(block_heights)
       /\ BlocksReturned => Keys(blocks_dict) = SucceededHeights

\* The processes run so far
InvokedProcs ==
    (IF pc = "start" THEN {} ELSE {count_proc})
    \cup { block_futures[k].hp : k \in { j \in 1..Len(block_futures) : block_futures[j].hp.ran } }
    \cup { block_futures[k].bp : k \in { j \in 1..Len(block_futures) : block_futures[j].bp.ran } }
    \cup { tx_futures[k].p : k \in { j \in 1..Len(tx_futures) : tx_futures[j].p.ran } }

\* C2: run_command returns a string whatever the process did: the trimmed
\* standard output when there is any, the empty string otherwise; so no
\* caller fails on applying a string operation to it.
C2_RunCommandReturnsAString ==
    /\ \A p \in InvokedProcs :
          /\ ~run_command(p).none
          /\ run_command(p).str = (IF p.exc THEN <<>> ELSE Strip(p.stdout))
    /\ exc \notin {"AttributeError", "TypeError"}

Min(a, b) == IF a <= b THEN a ELSE b

HeightKnown ==
    /\ pc # "start"
    /\ ~get_latest_block_height(count_proc).raised
    /\ ~get_latest_block_height(count_proc).none

\* C3: with N requested and chain height h, the heights submitted are
\* h, h-1, ..., h-m+1 for m = min(N, h+1): pairwise distinct, all in 0..h,
\* one future each; the warning is given exactly when N > h+1.
C3_SubmitsTheLatestMinNHeights ==
    HeightKnown =>
        LET h == get_latest_block_height(count_proc).val
            m == Min(n, h + 1)
        IN /\ Len(block_heights) = m
           /\ \A k \in 1..Len(block_heights) : block_heights[k] = h - (k - 1)
           /\ \A k \in 1..Len(block_heights) : block_heights[k] \in 0..h
           /\ Injective(block_heights)
           /\ Len(block_futures) = m
           /\ \A k \in 1..Len(block_futures) : block_futures[k].key = block_heights[k]
           /\ warned = (n > h + 1)

\* C3 witness: three blocks were requested of a chain of two, both heights
\* were submitted and the warning given
C3_Witness ==
    /\ pc = "fetch_blocks"
    /\ n = 3
    /\ warned
    /\ block_heights = <<1, 0>>

RecordsOf(ids) ==
    { k \in 1..Len(transactions_data) :
          \E j \in 1..Len(ids) : transactions_data[k].txid = ids[j] }

RequestsOf(id) == { k \in 1..Len(tx_futures) : tx_futures[k].key = id }

TxsSubmitted == pc \in {"fetch_txs", "save_txs", "done", "txs_raised"}

\* C4: for every fetched block, the records get_all_transactions holds for the
\* block's listed ids are at most the block's declared transaction count:
\* each listed id is requested exactly once, its result is taken at most once,
\* it contributes at most one record, and none when its lookup was a soft
\* miss, gave no output, or gave output that is not JSON.
C4_RecordsWithinDeclaredCount ==
    TxsSubmitted =>
        \A e \in Entries(blocks_dict) :
            /\ Cardinality(RecordsOf(e.v.txid)) <= e.v.txcount
            /\ \A j \in 1..Len(e.v.txid) :
                  /\ Cardinality(RequestsOf(e.v.txid[j])) = 1
                  /\ \A k \in RequestsOf(e.v.txid[j]) :
                        /\ tx_futures[k].uses <= 1
                        /\ Cardinality(RecordsOf(<<e.v.txid[j]>>)) <= tx_futures[k].uses
                        /\ (tx_futures[k].st = "done" /\ TxResult(tx_futures[k]).none)
                              => RecordsOf(<<e.v.txid[j]>>) = {}

\* C4 witness: a block declaring two transactions was fetched, one of its
\* lookups was a soft miss, and the fetch returned one record for it
C4_Witness ==
    /\ pc = "done"
    /\ \E e \in Entries(blocks_dict) :
          /\ e.v.txcount = 2
          /\ Cardinality(RecordsOf(e.v.txid)) = 1
          /\ \E k \in 1..Len(tx_futures) :
                /\ tx_futures[k].key = e.v.txid[1]
                /\ Contains(run_command(tx_futures[k].p).str, ErrorCodeM5)

\* C8: with the node's answers fixed, a second run returns what the first
\* returned, whatever the completion orders: the same mapping from
\* get_latest_n_blocks and the same multiset from get_all_transactions.
C8_SameResultForEveryCompletionOrder ==
    first_run.set =>
        /\ (BlocksReturned \/ pc = "blocks_raised") =>
               /\ first_run.blocks_raised = (pc = "blocks_raised")
               /\ BlocksReturned => first_run.blocks = Entries(blocks_dict)
        /\ Finished => Outcome = first_run

FullyConsumed(fs) == \A k \in 1..Len(fs) : fs[k].st = "done" /\ fs[k].uses = 1

\* C9: a fetcher that has finished has taken the result of every call it
\* submitted exactly once, and no call it submitted is still outstanding.
C9_FinishedFetcherTookEveryResultOnce ==
    /\ pc \notin {"start", "fetch_blocks"} => FullyConsumed(block_futures)
    /\ pc \in {"save_txs", "done", "txs_raised"} => FullyConsumed(tx_futures)

EmptyArrayFile == [written |-> TRUE, data |-> <<>>]

\* C10: when getblockcount does not yield a string of decimal digits,
\* get_latest_block_height returns None, no getblockhash, getblock or
\* getrawtransaction call is made, the run does not stop on an exception, and
\* at its end both files hold an empty array.
C10_NoHeightGivesTwoEmptyFiles ==
    (pc # "start"
       /\ (run_command(count_proc).none \/ ~IsDigit(run_command(count_proc).str)))
    => /\ ~get_latest_block_height(count_proc).raised
       /\ get_latest_block_height(count_proc).none
       /\ block_futures = <<>>
       /\ tx_futures = <<>>
       /\ pc \notin {"blocks_raised", "txs_raised"}
       /\ pc \in {"get_txs", "fetch_txs", "save_txs", "done"} => blocks_file = EmptyArrayFile
       /\ pc = "done" => tx_file = EmptyArrayFile

\* C5: the Processor's run ends without an uncaught error whichever of the
\* two files can be read, and every value handed to plot_time_series was
\* computed earlier in the run.
C5_ProcessorRunNeverRaises ==
    /\ ppc # "raised"
    /\ proc_exc = NoException
    /\ ppc = "plot" => /\ df_hourly_aggregation.bound
                       /\ df_transactions_per_hour.bound
                       /\ df_hourly_closing_difficulty.bound

\* Whether a JSON value denotes a number, and the number
IsNumeric(v) == v.kind = "num" \/ (v.kind = "str" /\ IsDigit(v.s))
NumberOf(v) == IF v.kind = "num" THEN v.n ELSE ToInt(v.s)

NumericOrZero(v) == IF IsNumeric(v) THEN NumberOf(v) ELSE 0

RECURSIVE NumericSendsSum(_)
NumericSendsSum(records) ==
    IF records = <<>> THEN 0
    ELSE NumericOrZero(Head(records).sends) + NumericSendsSum(Tail(records))

RECURSIVE NumericFeeSum(_)
NumericFeeSum(records) ==
    IF records = <<>> THEN 0
    ELSE NumericOrZero(Head(records).fee) + NumericFeeSum(Tail(records))

HoursOf(records) == { HourOf(records[k].time) : k \in 1..Len(records) }

\* C6: when the timestamps of all transaction records fall in one hour, that
\* hour is the only bucket, its hourly_volume is the sum of the numeric
\* `sends` values and its hourly_fees the sum of the numeric `fee` values; a
\* record whose value is not numeric is left out of that sum only.
C6_OneBucketSumsNumericValues ==
    (df_hourly_aggregation.bound /\ Cardinality(HoursOf(transaction_data.data)) = 1)
    => \A h \in HoursOf(transaction_data.data) :
          /\ DOMAIN df_hourly_aggregation.rows = {h}
          /\ df_hourly_aggregation.rows[h].hourly_volume
                 = NumericSendsSum(transaction_data.data)
          /\ df_hourly_aggregation.rows[h].hourly_fees
                 = NumericFeeSum(transaction_data.data)

\* C6 witness: two records of one hour, one of them with a non-numeric
\* `sends` and a numeric `fee`, were aggregated
C6_Witness ==
    /\ df_hourly_aggregation.bound
    /\ Len(transaction_data.data) = 2
    /\ Cardinality(HoursOf(transaction_data.data)) = 1
    /\ \E k \in 1..2 : /\ ~IsNumeric(transaction_data.data[k].sends)
                       /\ IsNumeric(transaction_data.data[k].fee)
    /\ \E k \in 1..2 : IsNumeric(transaction_data.data[k].sends)

BlocksOfHour(h) ==
    { block_data.data[k] : k \in { j \in 1..Len(block_data.data) :
                                       HourOf(block_data.data[j].time) = h } }

Latest(blocks) == { b \in blocks : \A c \in blocks : c.time <= b.time }

WithDifficulty(blocks) == { b \in blocks : b.difficulty.kind # "null" }

\* C7: for every hour that holds a block, closing_difficulty is the
\* difficulty of a block of that hour with the greatest timestamp, in whatever
\* order the blocks were persisted, also when that difficulty is missing.
C7_ClosingIsDifficultyOfLatestBlock ==
    df_hourly_closing_difficulty.bound =>
        \A h \in HoursOf(block_data.data) :
            /\ h \in DOMAIN df_hourly_closing_difficulty.rows
            /\ \E b \in Latest(BlocksOfHour(h)) :
                  df_hourly_closing_difficulty.rows[h].closing_difficulty
                      = DifficultyCell(b)

\* C7 as amended: for every hour that holds a block, closing_difficulty is
\* the difficulty of a block with the greatest timestamp among the blocks of
\* that hour whose difficulty is present, and is missing when no block of the
\* hour has one.
C7_ClosingIsLatestPresentDifficulty ==
    df_hourly_closing_difficulty.bound =>
        \A h \in HoursOf(block_data.data) :
            /\ h \in DOMAIN df_hourly_closing_difficulty.rows
            /\ IF WithDifficulty(BlocksOfHour(h)) = {}
               THEN df_hourly_closing_difficulty.rows[h].closing_difficulty = NaN
               ELSE \E b \in Latest(WithDifficulty(BlocksOfHour(h))) :
                       df_hourly_closing_difficulty.rows[h].closing_difficulty
                           = Val(b.difficulty.n)

\* C7 witness: two blocks of one hour were persisted latest first, the later
\* without a difficulty and the earlier with difficulty 1, and the closing
\* difficulty of the hour is 1
C7_Witness ==
    /\ df_hourly_closing_difficulty.bound
    /\ Len(block_data.data) = 2
    /\ block_data.data[1] = [time |-> SecondsPerHour - 1, difficulty |-> Null]
    /\ block_data.data[2] = [time |-> 0, difficulty |-> Num(1)]
    /\ df_hourly_closing_difficulty.rows[0].closing_difficulty = Val(1)

====
